---- MODULE Spec2Model ----
(***************************************************************************)
(* BookMyResort backend (src/main.py, src/schemas.py).                     *)
(*                                                                         *)
(* The three /api handlers are `async def` bodies without an await, so the *)
(* event loop runs each of them to completion: one action per handler.     *)
(*                                                                         *)
(* Text that the code inspects character by character (the date strings    *)
(* given to datetime.fromisoformat, the text of the UUID) is a sequence of *)
(* one-character strings.  Location names are only compared for equality   *)
(* and are TLA+ strings.  Prices are floats holding whole numbers, on      *)
(* which float arithmetic is exact; they are integers here.                *)
(***************************************************************************)
EXTENDS Integers, Sequences, FiniteSets

VARIABLES
    LOCATIONS,   \* the module-level catalog list
    db,          \* documents stored in the "booking" collection, oldest first
    calls,       \* every create_document call made so far: [collection, doc, raised]
    endpoint,    \* the handler that served the last request
    payload,     \* body of the last request when it went to /api/book
    response     \* what the last request's client received

vars == <<LOCATIONS, db, calls, endpoint, payload, response>>

----------------------------------------------------------------------------
(* Bounds and input alphabets                                              *)

\* create_document calls in one behaviour
MaxBookings == 2

Digits == <<"0", "1", "2", "3", "4", "5", "6", "7", "8", "9">>

HexDigits == <<"0", "1", "2", "3", "4", "5", "6", "7",
               "8", "9", "a", "b", "c", "d", "e", "f">>

DigitChar(n) == Digits[n + 1]

Pad2(n) == <<DigitChar(n \div 10), DigitChar(n % 10)>>

Pad4(n) == <<DigitChar(n \div 1000), DigitChar((n \div 100) % 10)>> \o Pad2(n % 100)

\* the text a client sends for a calendar date: YYYY-MM-DD
DateText(y, m, d) == Pad4(y) \o <<"-">> \o Pad2(m) \o <<"-">> \o Pad2(d)

\* the text a client sends for a date with a time of day: YYYY-MM-DDTHH:MM
DateTimeText(y, m, d, hh, mi) == DateText(y, m, d) \o <<"T">> \o Pad2(hh) \o <<":">> \o Pad2(mi)

\* <<check_in_date, check_out_date>> of the requests (the schema types both str)
ThreeNights == <<DateText(2024, 1, 1), DateText(2024, 1, 4)>>

DateRanges ==
    { ThreeNights,
      <<DateText(2024, 1, 4), DateText(2024, 1, 1)>>,
      <<DateText(2024, 1, 1), DateText(2024, 1, 1)>>,
      <<DateText(2024, 2, 28), DateText(2024, 3, 1)>>,
      <<DateTimeText(2024, 1, 1, 23, 0), DateTimeText(2024, 1, 3, 1, 0)>>,
      <<<<"s", "o", "o", "n">>, DateText(2024, 1, 4)>>,
      <<DateText(2024, 1, 1), DateText(2024, 2, 30)>> }

\* location values of the requests: an available and an unavailable catalog
\* entry and a name the catalog does not hold
LocationNames == {"Chennai", "Madurai", "Atlantis"}

\* OrderedItem values (price >= 0, quantity >= 1: schemas.py 17-20)
Coffee == [name |-> "Coffee", price |-> 5, quantity |-> 2]

Dinner == [name |-> "Dinner", price |-> 20, quantity |-> 1]

Water == [name |-> "Water", price |-> 0, quantity |-> 3]

AddonLists == { <<Coffee>>, <<Water, Coffee, Dinner>> }

\* the 32 hexadecimal digits of a UUID whose i-th digit is (a*i + b) mod 16,
\* with the version and variant digits uuid4 sets
UuidHex(a, b) ==
    [i \in 1..32 |->
        IF i = 13 THEN "4"
        ELSE IF i = 17 THEN HexDigits[9 + ((a * i + b) % 4)]
        ELSE HexDigits[1 + ((a * i + b) % 16)]]

\* values uuid.uuid4() may return
Uuids == { UuidHex(1, 9), UuidHex(7, 3) }

----------------------------------------------------------------------------
(* Static data: main.py 64-71                                              *)

CATALOG ==
    << [name |-> "Chennai",    price_per_night |-> 149, available |-> TRUE,
        facilities |-> <<"pool", "spa", "gym">>],
       [name |-> "Salem",      price_per_night |-> 119, available |-> TRUE,
        facilities |-> <<"pool", "gym">>],
       [name |-> "Kerala",     price_per_night |-> 199, available |-> TRUE,
        facilities |-> <<"pool", "spa", "yoga">>],
       [name |-> "Madurai",    price_per_night |-> 129, available |-> FALSE,
        facilities |-> <<"gym">>],
       [name |-> "Coimbatore", price_per_night |-> 139, available |-> TRUE,
        facilities |-> <<"pool", "spa">>],
       [name |-> "Bangalore",  price_per_night |-> 179, available |-> TRUE,
        facilities |-> <<"pool", "gym", "spa">>] >>

----------------------------------------------------------------------------
(* datetime.fromisoformat and datetime subtraction (main.py 92-94)         *)

IsDigit(c) == \E i \in 1..10 : Digits[i] = c

DigitVal(c) == (CHOOSE i \in 1..10 : Digits[i] = c) - 1

AllDigits(s) == \A i \in 1..Len(s) : IsDigit(s[i])

RECURSIVE ToInt(_)
\* int() of a string of decimal digits
ToInt(s) ==
    IF s = <<>> THEN 0
    ELSE 10 * ToInt(SubSeq(s, 1, Len(s) - 1)) + DigitVal(s[Len(s)])

IsLeap(y) == (y % 4 = 0) /\ ((y % 100 # 0) \/ (y % 400 = 0))

DaysInMonth(y, m) ==
    IF m = 2 THEN (IF IsLeap(y) THEN 29 ELSE 28)
    ELSE IF m \in {4, 6, 9, 11} THEN 30 ELSE 31

DaysBeforeYear(y) ==
    (y - 1) * 365 + ((y - 1) \div 4) - ((y - 1) \div 100) + ((y - 1) \div 400)

RECURSIVE DaysBeforeMonth(_, _)
DaysBeforeMonth(y, m) ==
    IF m = 1 THEN 0 ELSE DaysBeforeMonth(y, m - 1) + DaysInMonth(y, m - 1)

\* proleptic Gregorian ordinal of a date, 0001-01-01 being day 1
ToOrdinal(y, m, d) == DaysBeforeYear(y) + DaysBeforeMonth(y, m) + d

ParseError == [ok |-> FALSE, ordinal |-> 0, seconds |-> 0]

\* the date part: four digits, '-', two digits, '-', two digits, in range
ParseDate(s) ==
    IF /\ Len(s) = 10
       /\ s[5] = "-"
       /\ s[8] = "-"
       /\ AllDigits(SubSeq(s, 1, 4) \o SubSeq(s, 6, 7) \o SubSeq(s, 9, 10))
    THEN LET y == ToInt(SubSeq(s, 1, 4))
             m == ToInt(SubSeq(s, 6, 7))
             d == ToInt(SubSeq(s, 9, 10))
         IN  IF y >= 1 /\ m \in 1..12 /\ d >= 1 /\ d <= DaysInMonth(y, m)
             THEN [ok |-> TRUE, ordinal |-> ToOrdinal(y, m, d), seconds |-> 0]
             ELSE ParseError
    ELSE ParseError

\* the time part after the separator: HH, HH:MM or HH:MM:SS, in range, as the
\* second of the day; fractions and UTC offsets do not occur in DateRanges
ParseTime(s) ==
    IF Len(s) \in {2, 5, 8}
       /\ \A i \in 1..Len(s) : IF i \in {3, 6} THEN s[i] = ":" ELSE IsDigit(s[i])
    THEN LET hh == ToInt(SubSeq(s, 1, 2))
             mi == IF Len(s) >= 5 THEN ToInt(SubSeq(s, 4, 5)) ELSE 0
             ss == IF Len(s) >= 8 THEN ToInt(SubSeq(s, 7, 8)) ELSE 0
         IN  IF hh <= 23 /\ mi <= 59 /\ ss <= 59
             THEN [ok |-> TRUE, ordinal |-> 0, seconds |-> hh * 3600 + mi * 60 + ss]
             ELSE ParseError
    ELSE ParseError

\* datetime.fromisoformat(s): a date, or a date, one separator character and a
\* time of day; ok = FALSE stands for the ValueError it raises
fromisoformat(s) ==
    IF Len(s) < 10 THEN ParseError
    ELSE LET date == ParseDate(SubSeq(s, 1, 10))
         IN  IF ~date.ok THEN ParseError
             ELSE IF Len(s) = 10 THEN date
             ELSE LET time == ParseTime(SubSeq(s, 12, Len(s)))
                  IN  IF time.ok
                      THEN [ok |-> TRUE, ordinal |-> date.ordinal, seconds |-> time.seconds]
                      ELSE ParseError

SecondsPerDay == 86400

\* slip: counts the days inclusively
TimedeltaDays_Inclusive(d2, d1) ==
    (d2.ordinal - d1.ordinal) + ((d2.seconds - d1.seconds) \div SecondsPerDay) + 1

\* (d2 - d1).days: datetime.__sub__ builds timedelta(days2 - days1, secs2 - secs1),
\* which normalises to 0 <= seconds < 86400 by carrying whole days (floor)
TimedeltaDays(d2, d1) ==
    (d2.ordinal - d1.ordinal) + ((d2.seconds - d1.seconds) \div SecondsPerDay)

----------------------------------------------------------------------------
(* Pricing (main.py 98-100)                                                *)

\* slip: prices the first add-on only
SumAddons_FirstOnly(addons) ==
    IF addons = <<>> THEN 0 ELSE addons[1].price * addons[1].quantity

RECURSIVE SumAddons(_)
\* sum(item.price * item.quantity for item in addons), from the left, from 0
SumAddons(addons) ==
    IF addons = <<>> THEN 0
    ELSE SumAddons(SubSeq(addons, 1, Len(addons) - 1))
            + addons[Len(addons)].price * addons[Len(addons)].quantity

----------------------------------------------------------------------------
(* Booking identifier (main.py 102)                                        *)

\* str(uuid): the 32 digits in groups of 8-4-4-4-12 joined by hyphens
UuidStr(u) ==
    SubSeq(u, 1, 8) \o <<"-">> \o SubSeq(u, 9, 12) \o <<"-">> \o SubSeq(u, 13, 16)
        \o <<"-">> \o SubSeq(u, 17, 20) \o <<"-">> \o SubSeq(u, 21, 32)

UpperChar(c) ==
    CASE c = "a" -> "A" [] c = "b" -> "B" [] c = "c" -> "C"
      [] c = "d" -> "D" [] c = "e" -> "E" [] c = "f" -> "F"
      [] OTHER -> c

\* str.upper()
Upper(s) == [i \in 1..Len(s) |-> UpperChar(s[i])]

\* s[:n]
Prefix(s, n) == SubSeq(s, 1, IF n < Len(s) THEN n ELSE Len(s))

BookingIdLen == 8

\* slip: the identifier is left in lower case
MakeBookingId_NoUpper(u) == Prefix(UuidStr(u), BookingIdLen)

MakeBookingId(u) == Upper(Prefix(UuidStr(u), BookingIdLen))

----------------------------------------------------------------------------
(* Requests                                                                *)

Asha == [guest_name |-> "Asha", email |-> "asha@example.com"]

Ravi == [guest_name |-> "Ravi", email |-> "ravi@example.org"]

\* a BookingCreate body (schemas.py 44-52)
Body(g, l, r, a) ==
    [guest_name |-> g.guest_name, email |-> g.email, location |-> l,
     check_in_date |-> r[1], check_out_date |-> r[2],
     check_in_time |-> "14:00", check_out_time |-> "11:00",
     restaurant_addons |-> a]

\* the bodies sent to /api/book: every location with every date range and no
\* add-ons, a catalog name in the wrong case, and a three-night stay with each
\* add-on list
Payloads ==
    { Body(Asha, l, r, <<>>) : l \in LocationNames, r \in DateRanges }
        \cup { Body(Asha, "chennai", ThreeNights, <<>>) }
        \cup { Body(Ravi, "Chennai", ThreeNights, a) : a \in AddonLists }

\* booking_id values of SendEmailPayload bodies (main.py 131-141)
ConfirmationIds == { MakeBookingId(UuidHex(1, 9)), <<"N", "O", "N", "E">> }

NoPayload ==
    [guest_name |-> "", email |-> "", location |-> "",
     check_in_date |-> <<>>, check_out_date |-> <<>>,
     check_in_time |-> "", check_out_time |-> "", restaurant_addons |-> <<>>]

----------------------------------------------------------------------------
(* Responses                                                               *)

Reply(code, detail, id, status, locs) ==
    [status_code |-> code, detail |-> detail, booking_id |-> id,
     status |-> status, locations |-> locs]

\* raise HTTPException(status_code=400, detail=...)
HTTPException(code, detail) == Reply(code, detail, <<>>, "", <<>>)

\* an exception no handler catches: the framework answers 500
ServerError == Reply(500, "Internal Server Error", <<>>, "", <<>>)

\* BookingResponse(booking_id=...)
BookingResponse(id) == Reply(200, "", id, "", <<>>)

----------------------------------------------------------------------------
(* POST /api/book (main.py 83-128)                                         *)

\* slip: names are matched without regard to case
FindLocation_IgnoreCase(locs, name) ==
    LET n == IF name = "chennai" THEN "Chennai" ELSE name
    IN  IF \E i \in 1..Len(locs) : locs[i].name = n
        THEN CHOOSE i \in 1..Len(locs) : locs[i].name = n
        ELSE 0

\* slip: entries that are not available are skipped
FindLocation_AvailableOnly(locs, name) ==
    IF \E i \in 1..Len(locs) : locs[i].name = name /\ locs[i].available
    THEN CHOOSE i \in 1..Len(locs) : locs[i].name = name /\ locs[i].available
    ELSE 0

\* next((l for l in LOCATIONS if l.name == name), None): the index of the
\* first entry of that name, 0 for None
FindLocation(locs, name) ==
    IF \E i \in 1..Len(locs) : locs[i].name = name
    THEN CHOOSE i \in 1..Len(locs) :
            /\ locs[i].name = name
            /\ \A j \in 1..(i - 1) : locs[j].name # name
    ELSE 0

\* slip: the per-night price is the client's to set (here: the first entry's)
MakeBooking_FirstPrice(pl, location, nights, id) ==
    LET restaurant_total == SumAddons(pl.restaurant_addons)
        accommodation_total == nights * CATALOG[1].price_per_night
        total == accommodation_total + restaurant_total
    IN  [booking_id |-> id,
         guest_name |-> pl.guest_name,
         email |-> pl.email,
         location |-> pl.location,
         check_in_date |-> pl.check_in_date,
         check_out_date |-> pl.check_out_date,
         check_in_time |-> pl.check_in_time,
         check_out_time |-> pl.check_out_time,
         nights |-> nights,
         price_per_night |-> CATALOG[1].price_per_night,
         accommodation_total |-> accommodation_total,
         restaurant_addons |-> pl.restaurant_addons,
         restaurant_total |-> restaurant_total,
         total_amount |-> total]

\* Booking(...) of main.py 104-119
MakeBooking(pl, location, nights, id) ==
    LET restaurant_total == SumAddons(pl.restaurant_addons)
        accommodation_total == nights * location.price_per_night
        total == accommodation_total + restaurant_total
    IN  [booking_id |-> id,
         guest_name |-> pl.guest_name,
         email |-> pl.email,
         location |-> pl.location,
         check_in_date |-> pl.check_in_date,
         check_out_date |-> pl.check_out_date,
         check_in_time |-> pl.check_in_time,
         check_out_time |-> pl.check_out_time,
         nights |-> nights,
         price_per_night |-> location.price_per_night,
         accommodation_total |-> accommodation_total,
         restaurant_addons |-> pl.restaurant_addons,
         restaurant_total |-> restaurant_total,
         total_amount |-> total]

\* create_document(collection, doc) of the database module: stores the
\* document, or raises when the store is not reachable
create_document(store, doc, up) == IF up THEN Append(store, doc) ELSE store

\* slip: no except clause, the error of create_document reaches the client
Respond_Propagate(raised, id) == IF raised THEN ServerError ELSE BookingResponse(id)

\* main.py 121-128: the except clause swallows what create_document raised,
\* and the handler returns the identifier either way
Respond(raised, id) == BookingResponse(id)

\* the handler, given the value uuid4 returns and whether the store is up
create_booking(pl, u, up) ==
    /\ Len(calls) < MaxBookings
    /\ endpoint' = "book"
    /\ payload' = pl
    /\ LOCATIONS' = LOCATIONS
    /\ LET loc == FindLocation(LOCATIONS, pl.location)
       IN  IF loc = 0
           THEN /\ response' = HTTPException(400, "Invalid location")
                /\ UNCHANGED <<db, calls>>
           ELSE LET d1 == fromisoformat(pl.check_in_date)
                    d2 == fromisoformat(pl.check_out_date)
                IN  IF ~d1.ok \/ ~d2.ok
                    THEN /\ response' = ServerError
                         /\ UNCHANGED <<db, calls>>
                    ELSE LET nights == TimedeltaDays(d2, d1)
                         IN  IF nights < 1
                             THEN /\ response' = HTTPException(400, "Checkout must be after checkin")
                                  /\ UNCHANGED <<db, calls>>
                             ELSE LET booking_id == MakeBookingId(u)
                                      booking_doc == MakeBooking(pl, LOCATIONS[loc], nights, booking_id)
                                  IN  /\ calls' = Append(calls, [collection |-> "booking",
                                                                 doc |-> booking_doc,
                                                                 raised |-> ~up])
                                      /\ db' = create_document(db, booking_doc, up)
                                      /\ response' = Respond(~up, booking_id)

BookRequest == \E pl \in Payloads, u \in Uuids, up \in BOOLEAN : create_booking(pl, u, up)

----------------------------------------------------------------------------
(* POST /api/send-confirmation (main.py 144-148), GET /api/locations (74-76) *)

\* slip: confirming a booking removes its stored record
send_confirmation_Deletes(id) ==
    /\ endpoint' = "send-confirmation"
    /\ response' = Reply(200, "", id, "sent", <<>>)
    /\ payload' = NoPayload
    /\ db' = SelectSeq(db, LAMBDA d : d.booking_id # id)
    /\ UNCHANGED <<LOCATIONS, calls>>

send_confirmation(id) ==
    /\ endpoint' = "send-confirmation"
    /\ response' = Reply(200, "", id, "sent", <<>>)
    /\ payload' = NoPayload
    /\ UNCHANGED <<LOCATIONS, db, calls>>

SendRequest == \E id \in ConfirmationIds : send_confirmation(id)

get_locations ==
    /\ endpoint' = "locations"
    /\ response' = Reply(200, "", <<>>, "", LOCATIONS)
    /\ payload' = NoPayload
    /\ UNCHANGED <<LOCATIONS, db, calls>>

----------------------------------------------------------------------------

Init ==
    /\ LOCATIONS = CATALOG
    /\ db = <<>>
    /\ calls = <<>>
    /\ endpoint = "none"
    /\ payload = NoPayload
    /\ response = Reply(0, "", <<>>, "", <<>>)

Next == BookRequest \/ SendRequest \/ get_locations

Spec == Init /\ [][Next]_vars

----------------------------------------------------------------------------
(* Properties                                                              *)

\* the last request went to /api/book and was answered with a booking_id
Booked == endpoint = "book" /\ response.status_code = 200 /\ Len(calls) > 0

\* the last create_document call
LastCall == calls[Len(calls)]

InvalidLocation == HTTPException(400, "Invalid location")

InvalidDateRange == HTTPException(400, "Checkout must be after checkin")

CatalogNames == { CATALOG[i].name : i \in 1..Len(CATALOG) }

RECURSIVE Sigma(_)
\* the sum over a list of add-ons of price * quantity
Sigma(items) ==
    IF items = <<>> THEN 0
    ELSE Head(items).price * Head(items).quantity + Sigma(Tail(items))

\* the calendar date a date string names: the ordinal of its first ten characters
CalendarDay(s) == ParseDate(SubSeq(s, 1, 10)).ordinal

IdChars == {"0", "1", "2", "3", "4", "5", "6", "7", "8", "9",
            "A", "B", "C", "D", "E", "F", "G", "H", "I", "J", "K", "L", "M",
            "N", "O", "P", "Q", "R", "S", "T", "U", "V", "W", "X", "Y", "Z"}

\* C1: a successful booking's record carries the catalog's per-night price of
\* the requested location, and accommodation_total = nights * that price.
C1_PriceFromCatalog ==
    Booked =>
        \A i \in 1..Len(CATALOG) :
            CATALOG[i].name = payload.location =>
                /\ LastCall.doc.nights >= 1
                /\ LastCall.doc.price_per_night = CATALOG[i].price_per_night
                /\ LastCall.doc.accommodation_total
                        = LastCall.doc.nights * CATALOG[i].price_per_night

C1_Witness ==
    /\ Booked
    /\ payload.location = "Madurai"
    /\ LastCall.doc.nights = 3
    /\ LastCall.doc.accommodation_total = 387

\* C2: a successful booking's record has restaurant_total = the sum over the
\* request's add-ons of price * quantity (0 for none), and total_amount =
\* accommodation_total + restaurant_total.
C2_Totals ==
    Booked =>
        /\ LastCall.doc.restaurant_total = Sigma(payload.restaurant_addons)
        /\ LastCall.doc.total_amount
                = LastCall.doc.accommodation_total + LastCall.doc.restaurant_total

C2_Witness ==
    /\ Booked
    /\ payload.restaurant_addons = <<Water, Coffee, Dinner>>
    /\ LastCall.doc.restaurant_total = 30
    /\ LastCall.doc.total_amount = 477

\* C3: a booking request whose location is not exactly the name of a catalog
\* entry is answered 400 "Invalid location" and makes no create_document
\* call, whatever its dates are.
C3_UnknownLocation ==
    [][ (endpoint' = "book" /\ payload'.location \notin CatalogNames) =>
            (response' = InvalidLocation /\ calls' = calls /\ db' = db) ]_vars

C3_Witness ==
    /\ endpoint = "book"
    /\ payload.location = "Atlantis"
    /\ ~fromisoformat(payload.check_in_date).ok
    /\ response = InvalidLocation

C5_PersistenceFailure ==
    [][ ( /\ endpoint' = "book"
          /\ Len(calls') = Len(calls) + 1
          /\ calls'[Len(calls')].raised ) =>
            /\ response' = BookingResponse(calls'[Len(calls')].doc.booking_id)
            /\ db' = db ]_vars

C5_Witness ==
    /\ Booked
    /\ LastCall.raised
    /\ response.booking_id = LastCall.doc.booking_id
    /\ \A i \in 1..Len(db) : db[i] # LastCall.doc

\* C6: every booking request ends as InvalidLocation, as InvalidDateRange or
\* as a success carrying a booking_id.
C6_ThreeOutcomes ==
    endpoint = "book" =>
        \/ response = InvalidLocation
        \/ response = InvalidDateRange
        \/ response.status_code = 200 /\ Len(response.booking_id) > 0

\* C7: a location's available flag does not enter booking: a request for an
\* unavailable catalog location is never answered "Invalid location", and
\* with a stay of n >= 1 nights it succeeds with accommodation_total = n * the
\* location's price.
C7_AvailabilityIgnored ==
    \A i \in 1..Len(CATALOG) :
        ( /\ endpoint = "book"
          /\ ~CATALOG[i].available
          /\ payload.location = CATALOG[i].name ) =>
            LET d1 == fromisoformat(payload.check_in_date)
                d2 == fromisoformat(payload.check_out_date)
            IN  /\ response # InvalidLocation
                /\ (d1.ok /\ d2.ok /\ TimedeltaDays(d2, d1) >= 1) =>
                        /\ Booked
                        /\ LastCall.doc.location = CATALOG[i].name
                        /\ LastCall.doc.accommodation_total
                                = TimedeltaDays(d2, d1) * CATALOG[i].price_per_night

C7_Witness ==
    /\ Booked
    /\ payload.location = "Madurai"
    /\ payload.check_in_date = ThreeNights[1]
    /\ payload.check_out_date = ThreeNights[2]
    /\ LastCall.doc.accommodation_total = 3 * 129

\* C8: every booking_id, in a record handed to create_document or in a
\* response to /api/book, is 8 characters long, each a digit or an upper-case
\* letter.
C8_BookingIdShape ==
    /\ \A i \in 1..Len(calls) :
            /\ Len(calls[i].doc.booking_id) = 8
            /\ \A k \in 1..8 : calls[i].doc.booking_id[k] \in IdChars
    /\ (endpoint = "book" /\ response.status_code = 200) =>
            /\ Len(response.booking_id) = 8
            /\ \A k \in 1..8 : response.booking_id[k] \in IdChars

C8_Witness ==
    /\ Booked
    /\ response.booking_id = <<"A", "B", "C", "D", "E", "F", "0", "1">>

\* C9: every record handed to create_document has nights = the calendar-day
\* difference of its check-out and check-in dates, and nights >= 1.
C9_NightsAreCalendarDays ==
    \A i \in 1..Len(calls) :
        /\ calls[i].doc.nights >= 1
        /\ calls[i].doc.nights
                = CalendarDay(calls[i].doc.check_out_date)
                    - CalendarDay(calls[i].doc.check_in_date)

\* C10: a booking request answered 200 makes exactly one create_document call,
\* on collection "booking", with the booking_id it returns; any other request
\* makes none; stored records are never changed or removed, and the catalog
\* never changes.
C10_Frame ==
    [][ /\ LOCATIONS' = LOCATIONS
        /\ Len(db') >= Len(db)
        /\ SubSeq(db', 1, Len(db)) = db
        /\ Len(calls') >= Len(calls)
        /\ SubSeq(calls', 1, Len(calls)) = calls
        /\ IF endpoint' = "book" /\ response'.status_code = 200
           THEN /\ Len(calls') = Len(calls) + 1
                /\ calls'[Len(calls')].collection = "booking"
                /\ calls'[Len(calls')].doc.booking_id = response'.booking_id
                /\ Len(db') <= Len(db) + 1
                /\ Len(db') = Len(db) + 1 => db'[Len(db')] = calls'[Len(calls')].doc
           ELSE calls' = calls /\ db' = db ]_vars

C10_Witness ==
    /\ endpoint = "send-confirmation"
    /\ Len(db) = 2
    /\ Len(calls) = 2
    /\ response.booking_id = db[1].booking_id

====
